---- MODULE Spec2Model ----
(***************************************************************************)
(* The per-CPU physical page allocator (kernel/kalloc.c) and the hashed    *)
(* block cache (kernel/bio.c) as two independent state machines.           *)
(*   SpecK : kalloc / kfree running on NCPU execution units                *)
(*   SpecB : bread / brelse / bpin / bunpin run by NTASK tasks             *)
(* A spinlock acquire is enabled only while the lock is free.  In kalloc.c  *)
(* an acquire is a step of its own and the critical section after it is    *)
(* the next step.  In bio.c an acquire and the critical section after it,  *)
(* up to the next call that can block (another acquire, acquiresleep,      *)
(* virtio_disk_rw) or the return, are one step: the section reads and      *)
(* writes only what the lock protects.  virtio_disk_rw sleeps until the    *)
(* disk has answered: a task inside it is at "bread_io" or "bwrite_io",    *)
(* and what follows the call is a step of its own.                         *)
(***************************************************************************)
EXTENDS Integers, Sequences, FiniteSets

\* ---------------------------------------------------------------- bounds
\* number of execution units (NCPU of param.h)
NCPU == 3
\* number of page frames between end and PHYSTOP
NFRAMES == 2

CPUs == 0 .. (NCPU - 1)
\* frame k stands for the k-th page-aligned address of [end, PHYSTOP); 0 is
\* the null pointer
Frames == 1 .. NFRAMES

VARIABLES
    \* ---- kalloc.c
    freelist,     \* kmems[i].freelist : frame or 0
    run_next,     \* ((struct run *)f)->next : frame or 0; -1 / -5 = junk fill
    kmem_lock,    \* kmems[i].lock : the CPU holding it, or -1
    kpc,          \* where each CPU is inside kalloc / kfree
    kr,           \* the local r of the call a CPU is running
    ki,           \* the local i of kalloc's steal loop
    owned,        \* frames returned by kalloc to a CPU's caller, not yet freed
    seen          \* history: since the running kalloc was called there has been
                  \* a moment at which every free list was empty

kvars == <<freelist, run_next, kmem_lock, kpc, kr, ki, owned, seen>>

\* bytes per page (PGSIZE of riscv.h)
PGSIZE == 4096
\* end, the first address after the kernel: not page-aligned
End == PGSIZE + 1
\* PGROUNDUP(a)
PGROUNDUP(a) == ((a + PGSIZE - 1) \div PGSIZE) * PGSIZE
\* PHYSTOP: the managed range [end, PHYSTOP) holds NFRAMES whole pages
PHYSTOP == PGROUNDUP(End) + NFRAMES * PGSIZE
\* the address of frame k: freerange starts at PGROUNDUP(end)
Addr(f) == PGROUNDUP(End) + (f - 1) * PGSIZE
\* the frame number of an address (of the page it lies in)
FrameOf(pa) == ((pa - PGROUNDUP(End)) \div PGSIZE) + 1
\* addresses a caller must not pass to kfree: null, end itself, an address
\* inside the first page, PHYSTOP and the page after it
BadAddrs == {0, End, Addr(1) + 1, PHYSTOP, PHYSTOP + PGSIZE}

\* number of buffers in the pool (NBUF of param.h)
NBUF == 2
\* number of tasks using the block cache
NTASK == 2
\* most bpin calls left unmatched on one buffer
MaxPin == 1
\* most device writes in one run
MaxWrite == 1
\* number of hash buckets
NBUCKETS == 13

\* buffer k is bcache.buf[k-1]; 0 is no buffer
Bufs == 1 .. NBUF
Buckets == 0 .. (NBUCKETS - 1)
\* tasks are numbered from 1; 0 is no task
Tasks == 1 .. NTASK
\* the devices and block numbers the tasks ask for
Devs == {0, 1}
Blocknos == {0, 14}

VARIABLES
    \* ---- bio.c
    b_dev,        \* buf.dev
    b_blockno,    \* buf.blockno
    b_valid,      \* buf.valid
    b_refcnt,     \* buf.refcnt
    b_lock,       \* buf.lock (sleeplock): the task holding it, or 0
    hashbucket,   \* bcache.hashbucket[i]: the list from head.next to head.prev
    bcache_lock,  \* bcache.lock[i]: the task holding it, or 0
    nread,        \* virtio_disk_rw(b, 0) calls on a buffer since it was last retagged
    pc,           \* where each task is
    a_dev,        \* argument dev of the running bread
    a_blockno,    \* argument blockno of the running bread
    tb,           \* the local b of the running call
    ti,           \* the local i of bget's eviction loop
    tbucketno,    \* the local bucketno of the running brelse
    held,         \* <<b, dev, blockno>>: buffers bread returned to a task for
                  \* (dev, blockno), not yet passed to brelse
    pins,         \* bpin calls on a buffer not yet matched by bunpin
    atcall,       \* the pool as it was when the running bread was called:
                  \* "resident", "free" (not resident, some refcnt 0),
                  \* "exhausted" (not resident, no refcnt 0); "" when idle
    panicked,     \* the message of panic(), "" while the kernel runs
    nwrite        \* virtio_disk_rw(b, 1) calls that are over

bvars == <<b_dev, b_blockno, b_valid, b_refcnt, b_lock, hashbucket, bcache_lock,
           nread, pc, a_dev, a_blockno, tb, ti, tbucketno, held, pins, atcall,
           panicked, nwrite>>

vars == <<kvars, bvars>>

\* ------------------------------------------------------------- kalloc.c

\* kinit + freerange: CPU 0 frees frame 1, 2, ... NFRAMES in this order, each
\* pushed at the head of kmems[0].freelist.
InitK ==
    /\ freelist = [c \in CPUs |-> IF c = 0 THEN NFRAMES ELSE 0]
    /\ run_next = [f \in Frames |-> f - 1]
    /\ kmem_lock = [c \in CPUs |-> -1]
    /\ kpc = [c \in CPUs |-> "idle"]
    /\ kr = [c \in CPUs |-> 0]
    /\ ki = [c \in CPUs |-> 0]
    /\ owned = [c \in CPUs |-> {}]
    /\ seen = [c \in CPUs |-> FALSE]

\* acquire(&kmems[i].lock): spins until the lock is free
KAcquire(c, i) ==
    /\ kmem_lock[i] = -1
    /\ kmem_lock' = [kmem_lock EXCEPT ![i] = c]

\* release(&kmems[i].lock)
KRelease(lk, i) == [lk EXCEPT ![i] = -1]

\* NextOther for a loop that ends one partition early (i < NCPU - 1)
NextOther_Short(c, i) ==
    IF i >= NCPU - 1 THEN NCPU
    ELSE IF i # c THEN i
    ELSE IF i + 1 >= NCPU - 1 THEN NCPU
    ELSE i + 1

\* NextOther for a loop that only looks at the partitions after current_id
NextOther_Up(c, i) ==
    IF i >= NCPU \/ c + 1 >= NCPU THEN NCPU
    ELSE IF i > c THEN i
    ELSE c + 1

\* the for loop of kalloc: the first index >= i that is not current_id
\* (NCPU when the loop is over)
RECURSIVE NextOther(_, _)
NextOther(c, i) ==
    IF i >= NCPU THEN NCPU
    ELSE IF i # c THEN i
    ELSE NextOther(c, i + 1)

\* every partition's free list is empty
AllEmpty(fl) == \A i \in CPUs : fl[i] = 0

\* the positions of a CPU inside kalloc
InKalloc(p) == p \in {"ka_acq", "ka_own", "ka_scan", "ka_in"}

\* the history variable seen after a step: for each CPU inside kalloc whether
\* every list was empty at some moment since the call began
Observe ==
    seen' = [d \in CPUs |->
               IF ~InKalloc(kpc'[d]) THEN FALSE
               ELSE \/ (InKalloc(kpc[d]) /\ seen[d])
                    \/ (~InKalloc(kpc[d]) /\ AllEmpty(freelist))
                    \/ AllEmpty(freelist')]

\* the test of kfree: pa is page-aligned and lies in [end, PHYSTOP)
KfreeRange_NoTop(pa) == ~((pa % PGSIZE) # 0 \/ pa < End)

\* ((uint64)pa % PGSIZE) != 0 || (char *)pa < end || (uint64)pa >= PHYSTOP
\* does not hold
KfreeRange(pa) == ~((pa % PGSIZE) # 0 \/ pa < End \/ pa >= PHYSTOP)

\* PushHead on the list of partition 0, whatever the CPU
PushHead_Zero(fl, c, r) == [fl EXCEPT ![0] = r]

\* kmems[current_id].freelist = r
PushHead(fl, c, r) == [fl EXCEPT ![c] = r]

\* PopHead with the head left where it was
PopHead_Stale(fl, i, r) == fl

\* kmems[i].freelist = r->next
PopHead(fl, i, r) == [fl EXCEPT ![i] = run_next[r]]

\* kfree(pa), up to the acquire: the caller gives up the frame, it is filled
\* with 1s, cpuid() is read.
KfreeCall(c) ==
    /\ UNCHANGED bvars
    /\ kpc[c] = "idle"
    /\ \E pa \in owned[c] :
        /\ KfreeRange(Addr(pa))
        /\ owned' = [owned EXCEPT ![c] = @ \ {pa}]
        /\ run_next' = [run_next EXCEPT ![pa] = -1]
        /\ kr' = [kr EXCEPT ![c] = pa]
    /\ kpc' = [kpc EXCEPT ![c] = "kf_acq"]
    /\ UNCHANGED <<freelist, kmem_lock, ki>>
    /\ Observe

\* acquire(&kmems[current_id].lock) in kfree
KfreeAcquire(c) ==
    /\ UNCHANGED bvars
    /\ kpc[c] = "kf_acq"
    /\ KAcquire(c, c)
    /\ kpc' = [kpc EXCEPT ![c] = "kf_in"]
    /\ UNCHANGED <<freelist, run_next, kr, ki, owned>>
    /\ Observe

\* r->next = freelist; freelist = r; release
KfreePush(c) ==
    /\ UNCHANGED bvars
    /\ kpc[c] = "kf_in"
    /\ run_next' = [run_next EXCEPT ![kr[c]] = freelist[c]]
    /\ freelist' = PushHead(freelist, c, kr[c])
    /\ kmem_lock' = KRelease(kmem_lock, c)
    /\ kr' = [kr EXCEPT ![c] = 0]
    /\ kpc' = [kpc EXCEPT ![c] = "idle"]
    /\ UNCHANGED <<ki, owned>>
    /\ Observe

\* kalloc(), up to the acquire: cpuid() is read
KallocCall(c) ==
    /\ UNCHANGED bvars
    /\ kpc[c] = "idle"
    /\ kpc' = [kpc EXCEPT ![c] = "ka_acq"]
    /\ UNCHANGED <<freelist, run_next, kmem_lock, kr, ki, owned>>
    /\ Observe

\* acquire(&kmems[current_id].lock) in kalloc
KallocAcquire(c) ==
    /\ UNCHANGED bvars
    /\ kpc[c] = "ka_acq"
    /\ KAcquire(c, c)
    /\ kpc' = [kpc EXCEPT ![c] = "ka_own"]
    /\ UNCHANGED <<freelist, run_next, kr, ki, owned>>
    /\ Observe

\* release(&kmems[current_id].lock); if (r) memset(r, 5, PGSIZE); return r
\* given the locks and the frame found (0: none)
KallocReturn(c, lk, r) ==
    /\ kmem_lock' = KRelease(lk, c)
    /\ run_next' = IF r # 0 THEN [run_next EXCEPT ![r] = -5] ELSE run_next
    /\ owned' = IF r # 0 THEN [owned EXCEPT ![c] = @ \cup {r}] ELSE owned
    /\ kr' = [kr EXCEPT ![c] = 0]
    /\ ki' = [ki EXCEPT ![c] = 0]
    /\ kpc' = [kpc EXCEPT ![c] = "idle"]

\* r = freelist; if (r) pop, release, return; else enter the steal loop
KallocOwn(c) ==
    /\ UNCHANGED bvars
    /\ kpc[c] = "ka_own"
    /\ LET r == freelist[c] IN
       IF r # 0
       THEN /\ freelist' = PopHead(freelist, c, r)
            /\ KallocReturn(c, kmem_lock, r)
       ELSE IF NextOther(c, 0) = NCPU
       THEN /\ KallocReturn(c, kmem_lock, 0)
            /\ UNCHANGED freelist
       ELSE /\ ki' = [ki EXCEPT ![c] = NextOther(c, 0)]
            /\ kpc' = [kpc EXCEPT ![c] = "ka_scan"]
            /\ UNCHANGED <<freelist, run_next, kmem_lock, kr, owned>>
    /\ Observe

\* acquire(&kmems[i].lock) inside the loop, own lock still held
KallocStealAcquire(c) ==
    /\ UNCHANGED bvars
    /\ kpc[c] = "ka_scan"
    /\ KAcquire(c, ki[c])
    /\ kpc' = [kpc EXCEPT ![c] = "ka_in"]
    /\ UNCHANGED <<freelist, run_next, kr, ki, owned>>
    /\ Observe

\* r = kmems[i].freelist; if (r) pop, release both, return; else release
\* kmems[i].lock and go on with the next i
KallocSteal(c) ==
    /\ UNCHANGED bvars
    /\ kpc[c] = "ka_in"
    /\ LET i == ki[c]
           r == freelist[i] IN
       IF r # 0
       THEN /\ freelist' = PopHead(freelist, i, r)
            /\ KallocReturn(c, KRelease(kmem_lock, i), r)
       ELSE IF NextOther(c, i + 1) = NCPU
       THEN /\ KallocReturn(c, KRelease(kmem_lock, i), 0)
            /\ UNCHANGED freelist
       ELSE /\ kmem_lock' = KRelease(kmem_lock, i)
            /\ ki' = [ki EXCEPT ![c] = NextOther(c, i + 1)]
            /\ kpc' = [kpc EXCEPT ![c] = "ka_scan"]
            /\ UNCHANGED <<freelist, run_next, kr, owned>>
    /\ Observe

NextK ==
    \E c \in CPUs :
        \/ KfreeCall(c)
        \/ KfreeAcquire(c)
        \/ KfreePush(c)
        \/ KallocCall(c)
        \/ KallocAcquire(c)
        \/ KallocOwn(c)
        \/ KallocStealAcquire(c)
        \/ KallocSteal(c)

\* kfree(pa) with an address the caller does not own: panic("kfree") at the
\* test, before the lock is taken; an address that passes the test goes on as
\* in KfreeCall.
KfreeBadCall(c) ==
    /\ UNCHANGED bvars
    /\ kpc[c] = "idle"
    /\ \E pa \in BadAddrs :
        IF ~KfreeRange(pa)
        THEN /\ kpc' = [kpc EXCEPT ![c] = "panic"]
             /\ UNCHANGED <<run_next, kr>>
        ELSE /\ run_next' = [f \in Frames |->
                               IF f = FrameOf(pa) THEN -1 ELSE run_next[f]]
             /\ kr' = [kr EXCEPT ![c] = FrameOf(pa)]
             /\ kpc' = [kpc EXCEPT ![c] = "kf_acq"]
    /\ UNCHANGED <<freelist, kmem_lock, ki, owned>>
    /\ Observe

NextKM ==
    \E c \in CPUs :
        \/ KfreeCall(c)
        \/ KfreeBadCall(c)
        \/ KfreeAcquire(c)
        \/ KfreePush(c)
        \/ KallocCall(c)
        \/ KallocAcquire(c)
        \/ KallocOwn(c)
        \/ KallocStealAcquire(c)
        \/ KallocSteal(c)

\* no CPU is inside kalloc or kfree
Quiet == \A d \in CPUs : kpc[d] = "idle"

\* kfree called while no other call is running
KfreeCallSeq(c) == Quiet /\ KfreeCall(c)

\* kalloc called while no other call is running
KallocCallSeq(c) == Quiet /\ KallocCall(c)

\* the allocator with one call at a time
NextKSeq ==
    \E c \in CPUs :
        \/ KfreeCallSeq(c)
        \/ KfreeAcquire(c)
        \/ KfreePush(c)
        \/ KallocCallSeq(c)
        \/ KallocAcquire(c)
        \/ KallocOwn(c)
        \/ KallocStealAcquire(c)
        \/ KallocSteal(c)

\* ---------------------------------------------------------------- bio.c

\* binit: every buffer is zeroed (dev 0, blockno 0, refcnt 0, valid 0) and is
\* pushed at the head of hashbucket[0 % NBUCKETS], buf[0] first.
InitB ==
    /\ b_dev = [b \in Bufs |-> 0]
    /\ b_blockno = [b \in Bufs |-> 0]
    /\ b_valid = [b \in Bufs |-> 0]
    /\ b_refcnt = [b \in Bufs |-> 0]
    /\ b_lock = [b \in Bufs |-> 0]
    /\ hashbucket = [i \in Buckets |->
                       IF i = 0 THEN [k \in 1 .. NBUF |-> NBUF + 1 - k] ELSE <<>>]
    /\ bcache_lock = [i \in Buckets |-> 0]
    /\ nread = [b \in Bufs |-> 0]
    /\ pc = [t \in Tasks |-> "idle"]
    /\ a_dev = [t \in Tasks |-> 0]
    /\ a_blockno = [t \in Tasks |-> 0]
    /\ tb = [t \in Tasks |-> 0]
    /\ ti = [t \in Tasks |-> 0]
    /\ tbucketno = [t \in Tasks |-> 0]
    /\ held = [t \in Tasks |-> {}]
    /\ pins = [b \in Bufs |-> 0]
    /\ atcall = [t \in Tasks |-> ""]
    /\ panicked = ""
    /\ nwrite = 0

\* blockno % NBUCKETS
Hash(blockno) == blockno % NBUCKETS

\* b->dev == dev && b->blockno == blockno
Match(b, dev, blockno) == b_dev[b] = dev /\ b_blockno[b] = blockno

\* FirstMatch whose comparison never succeeds
FirstMatch_Miss(list, dev, blockno) == 0

\* for (b = head.next; b != head; b = b->next): the first buffer of the list
\* tagged (dev, blockno), 0 if the loop ends
FirstMatch(list, dev, blockno) ==
    IF \E k \in 1 .. Len(list) : Match(list[k], dev, blockno)
    THEN list[CHOOSE k \in 1 .. Len(list) :
                 /\ Match(list[k], dev, blockno)
                 /\ \A j \in 1 .. (k - 1) : ~Match(list[j], dev, blockno)]
    ELSE 0

\* Unused without the test of the reference count
Unused_Any(b) == TRUE

\* Unused that tests the content lock in place of the reference count
Unused_Unlocked(b) == b_lock[b] = 0

\* b->refcnt == 0
Unused(b) == b_refcnt[b] = 0

\* for (b = head.next; b != head; b = b->next): the first unused buffer
FirstUnused(list) ==
    IF \E k \in 1 .. Len(list) : Unused(list[k])
    THEN list[CHOOSE k \in 1 .. Len(list) :
                 /\ Unused(list[k])
                 /\ \A j \in 1 .. (k - 1) : ~Unused(list[j])]
    ELSE 0

\* for (b = head.prev; b != head; b = b->prev): the last unused buffer
LastUnused(list) ==
    IF \E k \in 1 .. Len(list) : Unused(list[k])
    THEN list[CHOOSE k \in 1 .. Len(list) :
                 /\ Unused(list[k])
                 /\ \A j \in (k + 1) .. Len(list) : ~Unused(list[j])]
    ELSE 0

\* Unlink that leaves b linked where it was
Unlink_None(hb, b) == hb

\* b->next->prev = b->prev; b->prev->next = b->next: b leaves the list it is in
Unlink(hb, b) == [i \in Buckets |-> SelectSeq(hb[i], LAMBDA x : x # b)]

\* InsertHead that links b before head.prev, at the tail
InsertHead_Tail(hb, i, b) == [hb EXCEPT ![i] = Append(@, b)]

\* InsertHead into the list of bucket 0, whatever the bucket
InsertHead_Zero(hb, i, b) == [hb EXCEPT ![0] = <<b>> \o @]

\* b->next = head.next; b->prev = &head; head.next->prev = b; head.next = b
InsertHead(hb, i, b) == [hb EXCEPT ![i] = <<b>> \o @]

\* Relocate that leaves b in the list it was in
Relocate_Stay(hb, bucketno, b) == hb

\* the eviction moves b from the bucket it is in to the head of bucketno
Relocate(hb, bucketno, b) == InsertHead(Unlink(hb, b), bucketno, b)

\* the for loop of bget: the first bucket >= i that is not bucketno
RECURSIVE NextBucket(_, _)
NextBucket(bucketno, i) ==
    IF i >= NBUCKETS THEN NBUCKETS
    ELSE IF i # bucketno THEN i
    ELSE NextBucket(bucketno, i + 1)

\* the buffers bread has returned to a task, not yet passed to brelse
HeldBufs(t) == {h[1] : h \in held[t]}

\* bread(dev, blockno) calls bget, up to acquire(&bcache.lock[bucketno]).  A
\* task does not ask for a block it holds (it would sleep on its own lock).
BreadCall(t) ==
    /\ panicked = ""
    /\ UNCHANGED <<kvars, nwrite>>
    /\ pc[t] = "idle"
    /\ \E dev \in Devs, blockno \in Blocknos :
        /\ \A h \in held[t] : ~(h[2] = dev /\ h[3] = blockno)
        /\ a_dev' = [a_dev EXCEPT ![t] = dev]
        /\ a_blockno' = [a_blockno EXCEPT ![t] = blockno]
        /\ atcall' = [atcall EXCEPT ![t] =
               IF \E b \in Bufs : Match(b, dev, blockno) THEN "resident"
               ELSE IF \E b \in Bufs : b_refcnt[b] = 0 THEN "free"
               ELSE "exhausted"]
    /\ pc' = [pc EXCEPT ![t] = "bget_acq"]
    /\ UNCHANGED <<b_dev, b_blockno, b_valid, b_refcnt, b_lock, hashbucket,
                   bcache_lock, nread, tb, ti, tbucketno, held, pins, panicked>>

\* b->dev = dev; b->blockno = blockno; b->valid = 0; b->refcnt = 1
Retag(t, b) ==
    /\ b_dev' = [b_dev EXCEPT ![b] = a_dev[t]]
    /\ b_blockno' = [b_blockno EXCEPT ![b] = a_blockno[t]]
    /\ b_valid' = [b_valid EXCEPT ![b] = 0]
    /\ b_refcnt' = [b_refcnt EXCEPT ![b] = 1]
    /\ nread' = [nread EXCEPT ![b] = 0]

\* Increment that leaves the count as it was
Increment_Skip(rc, b) == rc

\* b->refcnt++
Increment(rc, b) == [rc EXCEPT ![b] = @ + 1]

\* acquire(&bcache.lock[bucketno]) and the two loops over the home bucket:
\* a hit or an unused buffer releases the lock and goes on to acquiresleep,
\* otherwise the eviction loop starts with the home lock held
BgetHome(t) ==
    /\ panicked = ""
    /\ UNCHANGED <<kvars, nwrite>>
    /\ pc[t] = "bget_acq"
    /\ bcache_lock[Hash(a_blockno[t])] = 0
    /\ LET bucketno == Hash(a_blockno[t])
           m == FirstMatch(hashbucket[bucketno], a_dev[t], a_blockno[t])
           u == FirstUnused(hashbucket[bucketno]) IN
       IF m # 0
       THEN /\ b_refcnt' = Increment(b_refcnt, m)
            /\ tb' = [tb EXCEPT ![t] = m]
            /\ pc' = [pc EXCEPT ![t] = "bget_sleep"]
            /\ UNCHANGED <<b_dev, b_blockno, b_valid, nread, ti, bcache_lock>>
       ELSE IF u # 0
       THEN /\ Retag(t, u)
            /\ tb' = [tb EXCEPT ![t] = u]
            /\ pc' = [pc EXCEPT ![t] = "bget_sleep"]
            /\ UNCHANGED <<ti, bcache_lock>>
       ELSE /\ bcache_lock' = [bcache_lock EXCEPT ![bucketno] = t]
            /\ ti' = [ti EXCEPT ![t] = NextBucket(bucketno, 0)]
            /\ pc' = [pc EXCEPT ![t] = "bget_scan"]
            /\ UNCHANGED <<b_dev, b_blockno, b_valid, b_refcnt, nread, tb>>
    /\ UNCHANGED <<b_lock, hashbucket, a_dev, a_blockno, tbucketno, held, pins,
                   atcall, panicked>>

\* ReleaseBucket with the lock left held
ReleaseBucket_Keep(lk, i) == lk

\* release(&bcache.lock[i])
ReleaseBucket(lk, i) == [lk EXCEPT ![i] = 0]

\* one round of the eviction loop, home lock held: acquire(&bcache.lock[i]),
\* the scan of bucket i from its tail, release; a buffer found is retagged and
\* moved to the home bucket; panic("bget: no buffers") after the last bucket
BgetScan(t) ==
    /\ panicked = ""
    /\ UNCHANGED <<kvars, nwrite>>
    /\ pc[t] = "bget_scan"
    /\ bcache_lock[ti[t]] = 0
    /\ LET bucketno == Hash(a_blockno[t])
           i == ti[t]
           v == LastUnused(hashbucket[i]) IN
       IF v # 0
       THEN /\ Retag(t, v)
            /\ hashbucket' = Relocate(hashbucket, bucketno, v)
            /\ bcache_lock' = ReleaseBucket(bcache_lock, bucketno)
            /\ tb' = [tb EXCEPT ![t] = v]
            /\ ti' = [ti EXCEPT ![t] = 0]
            /\ pc' = [pc EXCEPT ![t] = "bget_sleep"]
            /\ UNCHANGED panicked
       ELSE IF NextBucket(bucketno, i + 1) = NBUCKETS
       THEN /\ panicked' = "bget: no buffers"
            /\ pc' = [pc EXCEPT ![t] = "panic"]
            /\ UNCHANGED <<b_dev, b_blockno, b_valid, b_refcnt, nread,
                           hashbucket, bcache_lock, tb, ti>>
       ELSE /\ ti' = [ti EXCEPT ![t] = NextBucket(bucketno, i + 1)]
            /\ UNCHANGED <<b_dev, b_blockno, b_valid, b_refcnt, nread,
                           hashbucket, bcache_lock, tb, pc, panicked>>
    /\ UNCHANGED <<b_lock, a_dev, a_blockno, tbucketno, held, pins, atcall>>

\* NeedsRead without the test of the validity flag
NeedsRead_Always(b) == TRUE

\* if (!b->valid)
NeedsRead(b) == b_valid[b] = 0

\* the task takes buffer b as the result of its bread: return b
ReturnBuffer(t, b) ==
    /\ held' = [held EXCEPT ![t] = @ \cup {<<b, a_dev[t], a_blockno[t]>>}]
    /\ tb' = [tb EXCEPT ![t] = 0]
    /\ a_dev' = [a_dev EXCEPT ![t] = 0]
    /\ a_blockno' = [a_blockno EXCEPT ![t] = 0]
    /\ atcall' = [atcall EXCEPT ![t] = ""]
    /\ pc' = [pc EXCEPT ![t] = "idle"]

\* acquiresleep(&b->lock) ends bget; bread returns b if it is valid, else it
\* calls virtio_disk_rw(b, 0) and waits for the disk with the content lock
\* held
BgetSleep(t) ==
    /\ panicked = ""
    /\ UNCHANGED <<kvars, nwrite>>
    /\ pc[t] = "bget_sleep"
    /\ b_lock[tb[t]] = 0
    /\ LET b == tb[t] IN
       /\ b_lock' = [b_lock EXCEPT ![b] = t]
       /\ IF NeedsRead(b)
          THEN /\ pc' = [pc EXCEPT ![t] = "bread_io"]
               /\ UNCHANGED <<held, tb, a_dev, a_blockno, atcall>>
          ELSE ReturnBuffer(t, b)
    /\ UNCHANGED <<b_dev, b_blockno, b_valid, b_refcnt, hashbucket, bcache_lock,
                   nread, ti, tbucketno, pins, panicked>>

\* virtio_disk_rw(b, 0) is over: b->valid = 1; return b
BreadReturn(t) ==
    /\ panicked = ""
    /\ UNCHANGED <<kvars, nwrite>>
    /\ pc[t] = "bread_io"
    /\ LET b == tb[t] IN
       /\ nread' = [nread EXCEPT ![b] = @ + 1]
       /\ b_valid' = [b_valid EXCEPT ![b] = 1]
       /\ ReturnBuffer(t, b)
    /\ UNCHANGED <<b_dev, b_blockno, b_refcnt, b_lock, hashbucket, bcache_lock,
                   ti, tbucketno, pins, panicked>>

\* HoldingSleep that only tests that the lock is held, by whatever task
HoldingSleep_Any(t, b) == b_lock[b] # 0

\* holdingsleep(&b->lock)
HoldingSleep(t, b) == b_lock[b] = t

\* brelse(b), up to acquire(&bcache.lock[bucketno]): the content lock is
\* released and bucketno is computed from b->blockno
BrelseCall(t) ==
    /\ panicked = ""
    /\ UNCHANGED <<kvars, nwrite>>
    /\ pc[t] = "idle"
    /\ \E h \in held[t] :
        /\ HoldingSleep(t, h[1])
        /\ b_lock' = [b_lock EXCEPT ![h[1]] = 0]
        /\ tbucketno' = [tbucketno EXCEPT ![t] = Hash(b_blockno[h[1]])]
        /\ tb' = [tb EXCEPT ![t] = h[1]]
        /\ held' = [held EXCEPT ![t] = @ \ {h}]
    /\ pc' = [pc EXCEPT ![t] = "brelse_acq"]
    /\ UNCHANGED <<b_dev, b_blockno, b_valid, b_refcnt, hashbucket, bcache_lock,
                   nread, a_dev, a_blockno, ti, pins, atcall, panicked>>

\* b->refcnt--
Decrement(rc, b) == [rc EXCEPT ![b] = @ - 1]

\* acquire(&bcache.lock[bucketno]); b->refcnt--; if (b->refcnt == 0) b moves
\* to the head of hashbucket[bucketno]; release
BrelseIn(t) ==
    /\ panicked = ""
    /\ UNCHANGED <<kvars, nwrite>>
    /\ pc[t] = "brelse_acq"
    /\ bcache_lock[tbucketno[t]] = 0
    /\ LET b == tb[t]
           rc == Decrement(b_refcnt, b) IN
       /\ b_refcnt' = rc
       /\ hashbucket' = IF rc[b] = 0
                         THEN Relocate(hashbucket, tbucketno[t], b)
                         ELSE hashbucket
    /\ tb' = [tb EXCEPT ![t] = 0]
    /\ tbucketno' = [tbucketno EXCEPT ![t] = 0]
    /\ pc' = [pc EXCEPT ![t] = "idle"]
    /\ UNCHANGED <<b_dev, b_blockno, b_valid, b_lock, bcache_lock, nread, a_dev,
                   a_blockno, ti, held, pins, atcall, panicked>>

\* bpin(b) by a task that holds b: acquire, b->refcnt++, release
Bpin(t) ==
    /\ panicked = ""
    /\ UNCHANGED <<kvars, nwrite>>
    /\ pc[t] = "idle"
    /\ \E b \in HeldBufs(t) :
        /\ pins[b] < MaxPin
        /\ bcache_lock[Hash(b_blockno[b])] = 0
        /\ b_refcnt' = Increment(b_refcnt, b)
        /\ pins' = [pins EXCEPT ![b] = @ + 1]
    /\ UNCHANGED <<b_dev, b_blockno, b_valid, b_lock, hashbucket, bcache_lock,
                   nread, pc, a_dev, a_blockno, tb, ti, tbucketno, held, atcall,
                   panicked>>

\* bunpin(b) of a pinned buffer: acquire, b->refcnt--, release
Bunpin(t) ==
    /\ panicked = ""
    /\ UNCHANGED <<kvars, nwrite>>
    /\ pc[t] = "idle"
    /\ \E b \in Bufs :
        /\ pins[b] > 0
        /\ bcache_lock[Hash(b_blockno[b])] = 0
        /\ b_refcnt' = Decrement(b_refcnt, b)
        /\ pins' = [pins EXCEPT ![b] = @ - 1]
    /\ UNCHANGED <<b_dev, b_blockno, b_valid, b_lock, hashbucket, bcache_lock,
                   nread, pc, a_dev, a_blockno, tb, ti, tbucketno, held, atcall,
                   panicked>>

\* the device writes begun and not yet over
WritesInFlight == Cardinality({u \in Tasks : pc[u] = "bwrite_io"})

\* bwrite(b) by a task that holds b: the test of holdingsleep passes,
\* virtio_disk_rw(b, 1) is called and the task waits for the disk
Bwrite(t) ==
    /\ panicked = ""
    /\ UNCHANGED <<kvars, nwrite>>
    /\ pc[t] = "idle"
    /\ nwrite + WritesInFlight < MaxWrite
    /\ \E b \in HeldBufs(t) :
        /\ HoldingSleep(t, b)
        /\ tb' = [tb EXCEPT ![t] = b]
    /\ pc' = [pc EXCEPT ![t] = "bwrite_io"]
    /\ UNCHANGED <<b_dev, b_blockno, b_valid, b_refcnt, b_lock, hashbucket,
                   bcache_lock, nread, a_dev, a_blockno, ti, tbucketno,
                   held, pins, atcall, panicked>>

\* virtio_disk_rw(b, 1) is over: bwrite returns
BwriteReturn(t) ==
    /\ panicked = ""
    /\ UNCHANGED kvars
    /\ pc[t] = "bwrite_io"
    /\ nwrite' = nwrite + 1
    /\ tb' = [tb EXCEPT ![t] = 0]
    /\ pc' = [pc EXCEPT ![t] = "idle"]
    /\ UNCHANGED <<b_dev, b_blockno, b_valid, b_refcnt, b_lock, hashbucket,
                   bcache_lock, nread, a_dev, a_blockno, ti, tbucketno,
                   held, pins, atcall, panicked>>

\* bwrite(b) with a buffer bread has not returned to the task, or that the
\* task has already passed to brelse: panic("bwrite") at the test; a buffer
\* that passes the test is written as in Bwrite
BwriteBadCall(t) ==
    /\ panicked = ""
    /\ UNCHANGED <<kvars, nwrite>>
    /\ pc[t] = "idle"
    /\ \E b \in Bufs \ HeldBufs(t) :
        IF ~HoldingSleep(t, b)
        THEN /\ panicked' = "bwrite"
             /\ pc' = [pc EXCEPT ![t] = "panic"]
             /\ UNCHANGED tb
        ELSE /\ tb' = [tb EXCEPT ![t] = b]
             /\ pc' = [pc EXCEPT ![t] = "bwrite_io"]
             /\ UNCHANGED panicked
    /\ UNCHANGED <<b_dev, b_blockno, b_valid, b_refcnt, b_lock, hashbucket,
                   bcache_lock, nread, a_dev, a_blockno, ti, tbucketno,
                   held, pins, atcall>>

\* brelse(b) with a buffer bread has not returned to the task, or that the
\* task has already passed to brelse: panic("brelse") at the test; a buffer
\* that passes the test is released as in BrelseCall
BrelseBadCall(t) ==
    /\ panicked = ""
    /\ UNCHANGED <<kvars, nwrite>>
    /\ pc[t] = "idle"
    /\ \E b \in Bufs \ HeldBufs(t) :
        IF ~HoldingSleep(t, b)
        THEN /\ panicked' = "brelse"
             /\ pc' = [pc EXCEPT ![t] = "panic"]
             /\ UNCHANGED <<b_lock, tbucketno, tb>>
        ELSE /\ b_lock' = [b_lock EXCEPT ![b] = 0]
             /\ tbucketno' = [tbucketno EXCEPT ![t] = Hash(b_blockno[b])]
             /\ tb' = [tb EXCEPT ![t] = b]
             /\ pc' = [pc EXCEPT ![t] = "brelse_acq"]
             /\ UNCHANGED panicked
    /\ UNCHANGED <<b_dev, b_blockno, b_valid, b_refcnt, hashbucket, bcache_lock,
                   nread, a_dev, a_blockno, ti, held, pins, atcall>>

\* the cache with bwrite and with calls on buffers the caller does not hold
NextBM ==
    \E t \in Tasks :
        \/ BreadCall(t)
        \/ BgetHome(t)
        \/ BgetScan(t)
        \/ BgetSleep(t)
        \/ BreadReturn(t)
        \/ Bwrite(t)
        \/ BwriteReturn(t)
        \/ BwriteBadCall(t)
        \/ BrelseCall(t)
        \/ BrelseBadCall(t)
        \/ BrelseIn(t)
        \/ Bpin(t)
        \/ Bunpin(t)

NextB ==
    \E t \in Tasks :
        \/ BreadCall(t)
        \/ BgetHome(t)
        \/ BgetScan(t)
        \/ BgetSleep(t)
        \/ BreadReturn(t)
        \/ BrelseCall(t)
        \/ BrelseIn(t)
        \/ Bpin(t)
        \/ Bunpin(t)

Init == InitK /\ InitB

\* the page allocator alone
SpecK == Init /\ [][NextK]_vars

\* the block cache alone
SpecB == Init /\ [][NextB]_vars

\* the page allocator or the block cache: the one that takes the first step
\* runs, the other stays as kinit or binit left it
NextKB ==
    \/ InitB /\ NextK
    \/ InitK /\ NextB

SpecKB == Init /\ [][NextKB]_vars

\* the block cache with bwrite and with calls on buffers not held
SpecBM == Init /\ [][NextBM]_vars

\* the page allocator with kfree of addresses the caller does not own
SpecKM == Init /\ [][NextKM]_vars

\* the page allocator with one call at a time
SpecKSeq == Init /\ [][NextKSeq]_vars

\* ------------------------------------------------- the free lists, observed

\* the frames reached from head h by following next, at most n of them
RECURSIVE ListFrom(_, _)
ListFrom(h, n) ==
    IF h \notin Frames \/ n = 0 THEN <<>>
    ELSE <<h>> \o ListFrom(run_next[h], n - 1)

\* kmems[c].freelist as a sequence
FreeList(c) == ListFrom(freelist[c], NFRAMES + 1)

\* the places where frame f is linked: <<partition, position>>
Links(f) ==
    {p \in CPUs \X (1 .. (NFRAMES + 1)) :
        p[2] <= Len(FreeList(p[1])) /\ FreeList(p[1])[p[2]] = f}

\* the callers that own frame f: kalloc returned it to them and they have not
\* freed it, or their kfree(f) has not yet linked it
KOwners(f) ==
    {c \in CPUs : f \in owned[c] \/ (kpc[c] \in {"kf_acq", "kf_in"} /\ kr[c] = f)}

\* the lock a CPU is spinning on, -1 if none
KWaitsFor(c) ==
    IF kpc[c] \in {"ka_acq", "kf_acq"} THEN c
    ELSE IF kpc[c] = "ka_scan" THEN ki[c]
    ELSE -1

\* every CPU of S spins on a lock held by a CPU of S: none of them ever moves
KStuck(S) ==
    /\ S # {}
    /\ \A c \in S : KWaitsFor(c) # -1 /\ kmem_lock[KWaitsFor(c)] \in S

\* ------------------------------------------------- the block cache, observed

\* the bucket lock a task is spinning on, -1 if none
BWaitsFor(t) ==
    IF pc[t] = "bget_acq" THEN Hash(a_blockno[t])
    ELSE IF pc[t] = "bget_scan" THEN ti[t]
    ELSE IF pc[t] = "brelse_acq" THEN tbucketno[t]
    ELSE -1

\* the buffers bget has chosen for a task, with the block asked for: those it
\* holds and the one whose content lock it is waiting for or that it is
\* loading
Granted(t) ==
    held[t] \cup (IF pc[t] \in {"bget_sleep", "bread_io"}
                  THEN {<<tb[t], a_dev[t], a_blockno[t]>>} ELSE {})

\* the buffers whose content lock task t has taken and not yet released: those
\* bread has returned to it and the one it is loading from the device
LockedBufs(t) ==
    HeldBufs(t) \cup (IF pc[t] = "bread_io" THEN {tb[t]} ELSE {})

\* bget calls on b not yet matched by the decrement of brelse
Acquisitions(b) ==
    Cardinality({t \in Tasks : b \in HeldBufs(t)})
    + Cardinality({t \in Tasks :
                     pc[t] \in {"bget_sleep", "bread_io", "brelse_acq"} /\ tb[t] = b})

\* no buffer is tagged with the block task t asks for and none has refcnt 0
ExhaustedFor(t) ==
    /\ \A b \in Bufs : b_refcnt[b] > 0
    /\ \A b \in Bufs : ~Match(b, a_dev[t], a_blockno[t])

\* ----------------------------------------------------------------- claims

\* C1: every frame is either owned by exactly one caller and linked in no free
\* list, or linked exactly once in exactly one partition's free list; every
\* free list ends in the null pointer.
C1_FramePartition ==
    /\ \A f \in Frames : Cardinality(KOwners(f)) + Cardinality(Links(f)) = 1
    /\ \A c \in CPUs :
          IF freelist[c] = 0 THEN TRUE
          ELSE /\ freelist[c] \in Frames
               /\ Len(FreeList(c)) <= NFRAMES
               /\ run_next[FreeList(c)[Len(FreeList(c))]] = 0

\* a frame stolen from partition 0 has been freed into another partition while
\* another frame is owned
C1_Witness ==
    \E c \in CPUs \ {0}, d \in CPUs :
        Len(FreeList(c)) > 0 /\ owned[d] # {}

\* C2: no set of tasks in which each holds a bucket lock and waits for a bucket
\* lock held by another task of the set.
C2_NoBucketLockCycle ==
    ~ \E S \in SUBSET Tasks :
        /\ S # {}
        /\ \A t \in S :
              /\ \E i \in Buckets : bcache_lock[i] = t
              /\ BWaitsFor(t) # -1
              /\ bcache_lock[BWaitsFor(t)] \in S \ {t}

\* C3: kalloc never blocks: no CPU inside kalloc belongs to a set of CPUs that
\* each spin on a lock held by a CPU of the set (such a call never returns).
C3_KallocNeverBlocks ==
    \A c \in CPUs :
        kpc[c] \in {"ka_acq", "ka_own", "ka_scan", "ka_in"} =>
            ~ \E S \in SUBSET CPUs : c \in S /\ KStuck(S)

\* C4: at most one buffer with reference count > 0 is tagged with a given
\* (dev, blockno).
C4_IdentityInvariant ==
    \A b1, b2 \in Bufs :
        (b1 # b2 /\ b_refcnt[b1] > 0 /\ b_refcnt[b2] > 0) =>
            ~Match(b1, b_dev[b2], b_blockno[b2])

\* two referenced buffers of the same bucket, one of them with two references
C4_Witness ==
    \E b1, b2 \in Bufs :
        /\ b1 # b2
        /\ b_refcnt[b1] > 1 /\ b_refcnt[b2] > 0
        /\ Hash(b_blockno[b1]) = Hash(b_blockno[b2])

\* C5: for every (dev, blockno) with an outstanding reference exactly one
\* buffer of the whole pool, buffers with reference count 0 included, carries
\* that tag.
C5_TagUniqueInPool ==
    \A b \in Bufs :
        b_refcnt[b] > 0 =>
            Cardinality({x \in Bufs : Match(x, b_dev[b], b_blockno[b])}) = 1

\* C6: a buffer's content lock is held by at most one task, the one recorded
\* in the lock; tasks that asked for the same (dev, blockno) were given the
\* same buffer, and only one of them is past acquiresleep.
C6_MutualExclusion ==
    /\ \A b \in Bufs :
          LET users == {t \in Tasks : b \in LockedBufs(t)} IN
          /\ Cardinality(users) <= 1
          /\ \A t \in users : b_lock[b] = t
          /\ b_lock[b] # 0 => b_lock[b] \in users
    /\ \A t1, t2 \in Tasks :
          \A g1 \in Granted(t1), g2 \in Granted(t2) :
              (g1[2] = g2[2] /\ g1[3] = g2[3]) => g1[1] = g2[1]

\* one task holds a buffer while another, given the same buffer for the same
\* block, waits for its content lock
C6_Witness ==
    \E t1, t2 \in Tasks :
        /\ t1 # t2
        /\ pc[t2] = "bget_sleep"
        /\ <<tb[t2], a_dev[t2], a_blockno[t2]>> \in held[t1]

\* C7: a buffer returned by bread(dev, blockno) is tagged (dev, blockno), is
\* valid, has reference count >= 1 and is locked by the caller, for as long as
\* the caller keeps it; a buffer is loaded from the device at most once
\* between two retaggings.
C7_BreadResult ==
    /\ \A t \in Tasks :
          \A h \in held[t] :
              /\ Match(h[1], h[2], h[3])
              /\ b_valid[h[1]] = 1
              /\ b_refcnt[h[1]] >= 1
              /\ b_lock[h[1]] = t
    /\ \A b \in Bufs : nread[b] <= 1 /\ (b_valid[b] = 1 => nread[b] = 1)

\* a task holds a buffer that was loaded once, right after an earlier holder
\* released the content lock: that holder's brelse has not yet dropped its
\* reference
C7_Witness ==
    \E t \in Tasks :
        \E h \in held[t] :
            /\ nread[h[1]] = 1
            /\ b_refcnt[h[1]] >= 2
            /\ \E t2 \in Tasks \ {t} : pc[t2] = "brelse_acq" /\ tb[t2] = h[1]

\* C8: the reference count of a buffer equals the number of outstanding
\* acquisitions plus the number of outstanding pins, and is never negative.
C8_RefcntConservation ==
    \A b \in Bufs :
        /\ b_refcnt[b] = Acquisitions(b) + pins[b]
        /\ b_refcnt[b] >= 0

\* a buffer held by one task, waited for by another and pinned
C8_Witness ==
    \E b \in Bufs :
        /\ pins[b] > 0
        /\ b_refcnt[b] >= 3
        /\ \E t \in Tasks : pc[t] = "bget_sleep" /\ tb[t] = b

\* C9: a bread of a block that is not resident, issued while some buffer has
\* reference count 0, does not abort with "no buffers".  Stated in the form
\* most favourable to the code: such a call may abort only if, at the moment
\* of the abort, no buffer has reference count 0.
C9_EvictionSucceeds ==
    \A t \in Tasks :
        (pc[t] = "panic" /\ atcall[t] = "free") =>
            ~ \E b \in Bufs : b_refcnt[b] = 0

\* C10 as stated: a bget called when its block is not resident and every
\* buffer has reference count > 0 never gets a buffer to return.
C10_ExhaustedCallAborts ==
    \A t \in Tasks :
        atcall[t] = "exhausted" => pc[t] \in {"bget_acq", "bget_scan", "panic"}

\* C10 amended: a step that bget takes while its block is not resident and
\* every buffer has reference count > 0 only starts the eviction loop or ends
\* it with panic("bget: no buffers"); it never picks a buffer to return.
C10_ExhaustedStepAborts ==
    [][\A t \in Tasks :
          (pc[t] \in {"bget_acq", "bget_scan"} /\ ExhaustedFor(t) /\ pc'[t] # pc[t]) =>
              \/ pc[t] = "bget_acq" /\ pc'[t] = "bget_scan"
              \/ /\ pc[t] = "bget_scan"
                 /\ pc'[t] = "panic"
                 /\ panicked' = "bget: no buffers"]_vars

\* a bget called on an exhausted pool has scanned every bucket and aborted
C10_Witness ==
    \E t \in Tasks :
        /\ pc[t] = "panic"
        /\ panicked = "bget: no buffers"
        /\ atcall[t] = "exhausted"
        /\ ExhaustedFor(t)

\* ---------------------------------------------------------------- C11

\* the partition a kalloc on c takes its frame from when nothing else runs:
\* its own if that is not empty, else the lowest-indexed other partition that
\* is not empty; NCPU when every list is empty
KallocSource(c) ==
    IF freelist[c] # 0 THEN c
    ELSE IF \E i \in CPUs \ {c} : freelist[i] # 0
    THEN CHOOSE i \in CPUs \ {c} :
             /\ freelist[i] # 0
             /\ \A j \in CPUs \ {c} : freelist[j] # 0 => i <= j
    ELSE NCPU

\* the step with which kalloc returns on c
KallocReturns(c) == InKalloc(kpc[c]) /\ kpc'[c] = "idle"

\* C11: with one call at a time, kalloc on c returns the head of c's own list
\* if that list is not empty, else the head of the lowest-indexed other list
\* that is not empty, and unlinks it; it returns none exactly when every list
\* is empty, and then changes no list. The frame returned is none of the
\* frames handed out and not yet freed.
C11_SequentialKalloc ==
    [][\A c \in CPUs :
         KallocReturns(c) =>
           \E src \in CPUs \cup {NCPU} :
               /\ src = KallocSource(c)
               /\ IF src = NCPU
                  THEN /\ AllEmpty(freelist)
                       /\ owned' = owned
                       /\ \A i \in CPUs : FreeList(i)' = FreeList(i)
                  ELSE \E r \in Frames :
                       /\ r = freelist[src]
                       /\ owned' = [owned EXCEPT ![c] = @ \cup {r}]
                       /\ \A d \in CPUs : r \notin owned[d]
                       /\ FreeList(src)' = Tail(FreeList(src))
                       /\ \A i \in CPUs \ {src} : FreeList(i)' = FreeList(i)
                       /\ Links(r)' = {}
      ]_vars

\* a kalloc that is about to return none after it has looked at every other
\* partition, all frames having been handed out by earlier calls (own list
\* first, then stolen)
C11_Witness ==
    \E c \in CPUs :
        /\ kpc[c] = "ka_in"
        /\ NextOther(c, ki[c] + 1) = NCPU
        /\ AllEmpty(freelist)
        /\ \E d \in CPUs \ {0} : owned[d] # {}

\* ---------------------------------------------------------------- C12

\* the bucket locks task t holds
BucketLocksOf(t) == {i \in Buckets : bcache_lock[i] = t}

\* C12: a task that waits for a content lock (acquiresleep at the end of bget)
\* or that does device I/O (inside virtio_disk_rw in bread or in bwrite, or
\* about to call bwrite) holds no bucket lock.
C12_NoBucketLockWhileSleeping ==
    \A t \in Tasks :
        pc[t] \in {"bget_sleep", "bread_io", "bwrite_io", "idle"}
            => BucketLocksOf(t) = {}

\* after a device write, a task waits in acquiresleep for a buffer of a bucket
\* other than 0 that the other task, holding its content lock, is loading
\* from the device
C12_Witness ==
    \E t \in Tasks :
        /\ pc[t] = "bget_sleep"
        /\ b_lock[tb[t]] \notin {0, t}
        /\ pc[b_lock[tb[t]]] = "bread_io"
        /\ tb[b_lock[tb[t]]] = tb[t]
        /\ nwrite > 0
        /\ \E i \in Buckets \ {0} : tb[t] \in {hashbucket[i][k] : k \in 1 .. Len(hashbucket[i])}

\* ---------------------------------------------------------------- C13

\* the buffers linked in hashbucket[i]
InBucket(i) == {hashbucket[i][k] : k \in 1 .. Len(hashbucket[i])}

\* the buckets whose list contains buffer b
BucketsOf(b) == {i \in Buckets : b \in InBucket(i)}

\* the task that takes the step
Actor(t) == pc'[t] # pc[t] \/ ti'[t] # ti[t]

\* the bucket locks task t holds inside the critical section of its next step:
\* those it holds already and the one the step acquires
LocksInStep(t) ==
    BucketLocksOf(t) \cup
        (IF pc[t] = "bget_acq" THEN {Hash(a_blockno[t])}
         ELSE IF pc[t] = "bget_scan" THEN {ti[t]}
         ELSE IF pc[t] = "brelse_acq" THEN {tbucketno[t]}
         ELSE {})

\* C13: every change of a buffer's refcnt or tag, and every change of a bucket
\* list (the prev/next links of its buffers), is made by a task that holds the
\* lock of the bucket whose list contains the buffer, and for a buffer that
\* moves to another list the lock of that bucket too; bpin and bunpin, which
\* take the lock of bucket blockno % NBUCKETS, find the buffer in that bucket.
\* Every change of a partition's free-list head is made by a CPU that holds
\* that partition's lock.
C13_NoUnlockedMutation ==
    [][/\ \A b \in Bufs :
            (\/ b_refcnt'[b] # b_refcnt[b]
             \/ b_dev'[b] # b_dev[b]
             \/ b_blockno'[b] # b_blockno[b]
             \/ BucketsOf(b)' # BucketsOf(b))
            => IF pins'[b] # pins[b]
               THEN BucketsOf(b) = {Hash(b_blockno[b])}
               ELSE \E t \in Tasks :
                      /\ Actor(t)
                      /\ BucketsOf(b) \subseteq LocksInStep(t)
                      /\ BucketsOf(b) # {}
                      /\ \E js \in SUBSET Buckets :
                            js = BucketsOf(b)' /\ js \subseteq LocksInStep(t)
       /\ \A i \in Buckets :
            hashbucket'[i] # hashbucket[i]
            => \E t \in Tasks : Actor(t) /\ i \in LocksInStep(t)
       /\ \A i \in CPUs :
            freelist'[i] # freelist[i]
            => \E c \in CPUs : kmem_lock[i] = c /\ kpc'[c] # kpc[c]
      ]_vars

\* the cache has moved a buffer to another bucket, where it is referenced and
\* pinned
C13_Witness ==
    \E b \in Bufs :
        /\ BucketsOf(b) = {1}
        /\ b_refcnt[b] = 2
        /\ pins[b] = 1

\* ---------------------------------------------------------------- C14

\* C14: bwrite(b) and brelse(b) by a task that does not hold b's content lock
\* end in panic("bwrite") and panic("brelse"): no device write is made, no
\* content lock is released, no refcnt and no bucket list changes.
C14_MisuseAborts ==
    [][\A t \in Tasks :
         /\ BwriteBadCall(t) => panicked' = "bwrite"
         /\ BrelseBadCall(t) => panicked' = "brelse"
         /\ (BwriteBadCall(t) \/ BrelseBadCall(t))
            => /\ pc'[t] = "panic"
               /\ nwrite' = nwrite
               /\ b_lock' = b_lock
               /\ b_refcnt' = b_refcnt
               /\ hashbucket' = hashbucket
               /\ bcache_lock' = bcache_lock
      ]_vars

\* a task has panicked in bwrite or brelse on a buffer whose content lock the
\* other task holds
C14_Witness ==
    \E t \in Tasks :
        /\ pc[t] = "panic"
        /\ panicked \in {"bwrite", "brelse"}
        /\ \E b \in Bufs : b_lock[b] \notin {0, t} /\ b_refcnt[b] > 0

\* ---------------------------------------------------------------- C15

\* the frame numbers linked in the list of partition c, as they are stored:
\* the head and the next field of every frame reached from it
RawLinked(c) ==
    {freelist[c]} \cup {run_next[FreeList(c)[k]] : k \in 1 .. Len(FreeList(c))}

\* C15: kfree(pa) with pa not page-aligned or outside [end, PHYSTOP) ends in
\* panic("kfree") before it takes a lock or changes a list; so every frame
\* linked in a free list is page-aligned and lies in [end, PHYSTOP).
C15_KfreeRangeCheck ==
    /\ [][\A c \in CPUs :
            KfreeBadCall(c) => /\ kpc'[c] = "panic"
                               /\ freelist' = freelist
                               /\ run_next' = run_next
                               /\ kmem_lock' = kmem_lock
         ]_vars
    /\ [](\A c \in CPUs : \A x \in RawLinked(c) \ {0} :
            /\ Addr(x) % PGSIZE = 0
            /\ Addr(x) >= End
            /\ Addr(x) < PHYSTOP)

\* a CPU has panicked in kfree while frames are linked in the lists of two
\* partitions
C15_Witness ==
    /\ \E c \in CPUs : kpc[c] = "panic"
    /\ \E i, j \in CPUs : i # j /\ freelist[i] # 0 /\ freelist[j] # 0

\* ---------------------------------------------------------------- C16

\* C16: a buffer whose refcnt is greater than 0 keeps its tag and stays in its
\* bucket list: retagging and relocation are only applied to a buffer whose
\* refcnt is 0 in the state in which the step is taken.
C16_ReferencedBufferStays ==
    [][\A b \in Bufs :
         b_refcnt[b] > 0 =>
           /\ b_dev'[b] = b_dev[b]
           /\ b_blockno'[b] = b_blockno[b]
           /\ BucketsOf(b)' = BucketsOf(b)
      ]_vars

\* a referenced buffer that was retagged and moved to bucket 1 while a task
\* scans the buckets for a buffer to evict
C16_Witness ==
    \E b \in Bufs :
        /\ BucketsOf(b) = {1}
        /\ b_refcnt[b] > 0
        /\ \E t \in Tasks : pc[t] = "bget_scan" /\ ti[t] = 1

\* ---------------------------------------------------------------- C17

\* the places where buffer b is linked: <<bucket, position>>
BufLinks(b) ==
    UNION {{<<i, k>> : k \in {n \in 1 .. Len(hashbucket[i]) : hashbucket[i][n] = b}} :
              i \in Buckets}

\* C17: whenever no task holds a bucket lock, every buffer is linked exactly
\* once, in the list of bucket blockno % NBUCKETS; so the lock that brelse,
\* bpin and bunpin compute from b->blockno is the lock of the list holding b.
C17_MembershipMatchesTag ==
    (\A i \in Buckets : bcache_lock[i] = 0) =>
        \A b \in Bufs :
            /\ Cardinality(BufLinks(b)) = 1
            /\ \A p \in BufLinks(b) : p[1] = b_blockno[b] % NBUCKETS

\* no bucket lock is held, one buffer has been moved to bucket 1 by an
\* eviction and the other is in bucket 0, and a brelse is about to take the
\* lock it computed
C17_Witness ==
    /\ \A i \in Buckets : bcache_lock[i] = 0
    /\ Len(hashbucket[1]) = 1
    /\ Len(hashbucket[0]) = 1
    /\ \E t \in Tasks : pc[t] = "brelse_acq" /\ tbucketno[t] = 1

\* ---------------------------------------------------------------- C18

\* list without buffer b
Without(list, b) == SelectSeq(list, LAMBDA x : x # b)

\* the refcnt-0 buffers linked before position k of list, refcnt taken from rc
UnusedBefore(list, k, rc) == {list[n] : n \in {m \in 1 .. (k - 1) : rc[list[m]] = 0}}

\* the refcnt-0 buffers linked after position k of list
UnusedAfter(list, k, rc) ==
    {list[n] : n \in {m \in (k + 1) .. Len(list) : rc[list[m]] = 0}}

\* C18 as claimed: the refcnt-0 buffers of a bucket are linked in the order in
\* which their refcnt last dropped to 0, the latest nearest the head. In the
\* state after a step that brings a buffer's refcnt to 0 that buffer is the
\* latest, so no other refcnt-0 buffer of its bucket is linked before it.
C18_OrderOfLastDrop ==
    [][\A b \in Bufs :
         (b_refcnt[b] > 0 /\ b_refcnt'[b] = 0)
         => \A p \in BufLinks(b)' :
              UnusedBefore(hashbucket'[p[1]], p[2], b_refcnt') = {}
      ]_vars

\* C18 amended: the bucket lists only change by one buffer being put at the
\* head of a list, either by the brelse that brings its refcnt to 0 (it is
\* then the first buffer of its bucket) or by the eviction that takes the
\* refcnt-0 buffer nearest the tail of the scanned bucket; every other buffer
\* keeps its place relative to the others, and bunpin changes no list. So the
\* buffers of a bucket are linked in the order in which they were last put at
\* the head, the latest first.
C18_OrderOfLastMoveToHead ==
    [][/\ hashbucket' # hashbucket =>
            \E b \in Bufs :
                /\ \A i \in Buckets :
                     Without(hashbucket'[i], b) = Without(hashbucket[i], b)
                /\ \A p \in BufLinks(b)' : p[2] = 1
                /\ \/ b_refcnt[b] = 1 /\ b_refcnt'[b] = 0 /\ pins' = pins
                   \/ /\ b_refcnt[b] = 0 /\ b_refcnt'[b] = 1
                      /\ \A p \in BufLinks(b) :
                           UnusedAfter(hashbucket[p[1]], p[2], b_refcnt) = {}
       /\ \A b \in Bufs :
            (b_refcnt[b] > 0 /\ b_refcnt'[b] = 0 /\ pins' = pins)
            => \A p \in BufLinks(b)' : p[2] = 1
       /\ pins' # pins => hashbucket' = hashbucket
      ]_vars

\* two unpinned refcnt-0 buffers are linked in bucket 1, where evictions and
\* brelse have put them, and a task is about to scan that bucket from the tail
C18_Witness ==
    /\ Len(hashbucket[1]) = 2
    /\ \A b \in Bufs : b_refcnt[b] = 0 /\ pins[b] = 0
    /\ \E t \in Tasks : pc[t] = "bget_scan" /\ ti[t] = 1

\* ---------------------------------------------------------------- C19

\* the step with which kalloc returns none on c
KallocReturnsNone(c) == KallocReturns(c) /\ owned'[c] = owned[c]

\* the partitions other than c's own with an index above i
OthersAbove(c, i) == {j \in CPUs \ {c} : j > i}

\* C19 as claimed: if kalloc returns none, every partition's free list was
\* empty in one and the same state between the call and the return.
C19_NoneMeansAllEmptyAtOnce ==
    [][\A c \in CPUs :
         KallocReturnsNone(c) => seen[c] \/ AllEmpty(freelist')
      ]_vars

\* C19 amended: if kalloc returns none, its own list has been empty from the
\* moment it was inspected until the return, and every other partition's list
\* was empty when the call inspected it under that partition's lock, one
\* after the other in index order, the last one in the returning step.
C19_NoneMeansEachEmptyWhenInspected ==
    /\ [](\A c \in CPUs : kpc[c] \in {"ka_scan", "ka_in"} => freelist[c] = 0)
    /\ [][\A c \in CPUs :
            /\ (kpc[c] = "ka_own" /\ kpc'[c] = "ka_scan")
               => /\ freelist[c] = 0
                  /\ OthersAbove(c, -1) # {}
                  /\ \A j \in OthersAbove(c, -1) : ki'[c] <= j
            /\ (kpc[c] = "ka_in" /\ kpc'[c] = "ka_scan")
               => /\ freelist[ki[c]] = 0
                  /\ ki'[c] \in OthersAbove(c, ki[c])
                  /\ \A j \in OthersAbove(c, ki[c]) : ki'[c] <= j
            /\ KallocReturnsNone(c)
               => /\ freelist[c] = 0
                  /\ \/ kpc[c] = "ka_own" /\ OthersAbove(c, -1) = {}
                     \/ /\ kpc[c] = "ka_in"
                        /\ freelist[ki[c]] = 0
                        /\ kmem_lock[ki[c]] = c
                        /\ OthersAbove(c, ki[c]) = {}
         ]_vars

\* a kalloc is about to return none, the last list it looks at being empty,
\* although since it was called some list has always held a frame
C19_Witness ==
    \E c \in CPUs :
        /\ kpc[c] = "ka_in"
        /\ OthersAbove(c, ki[c]) = {}
        /\ freelist[ki[c]] = 0
        /\ ~seen[c]
        /\ ~AllEmpty(freelist)

\* ---------------------------------------------------------------- C20

\* the step with which kfree links its frame on c
KfreeLinks(c) == kpc[c] = "kf_in" /\ kpc'[c] = "idle"

\* C20: kfree(f) on c makes f the head of c's list with the list as it was
\* behind it and leaves the other lists as they were; a kalloc on c that finds
\* its own list not empty returns the head of that list, so with no other
\* operation on c's partition in between it returns f.
C20_KfreeThenKalloc ==
    [][\A c \in CPUs :
         /\ KfreeLinks(c)
            => /\ FreeList(c)' = <<kr[c]>> \o FreeList(c)
               /\ \A d \in CPUs \ {c} : FreeList(d)' = FreeList(d)
               /\ owned' = owned
         /\ (kpc[c] = "ka_own" /\ freelist[c] # 0)
            => \/ UNCHANGED <<kpc[c], freelist[c], owned[c]>>
               \/ /\ kpc'[c] = "idle"
                  /\ owned'[c] = owned[c] \cup {freelist[c]}
                  /\ FreeList(c)' = Tail(FreeList(c))
      ]_vars

\* a kalloc on a CPU other than 0 is about to take the frame at the head of
\* its own list, where that CPU's kfree has linked it
C20_Witness ==
    \E c \in CPUs \ {0} :
        /\ kpc[c] = "ka_own"
        /\ freelist[c] # 0
        /\ Len(FreeList(c)) = 2

====
